---- MODULE Spec2Model ----
(***************************************************************************)
(* State-machine model of contracts/JobApproval.sol: the role registry     *)
(* (HR managers = authorizers, field managers = domain specialists), the   *)
(* e-mail uniqueness index and the approval ledger.  Every call is one     *)
(* atomic step (one transaction); a failed `require` reverts the whole     *)
(* call, so a reverting call leaves the storage as it was.  What a call    *)
(* returns to its caller (the revert reason) is the value of the           *)
(* operator <function>Revert in the state the call is made in.             *)
(***************************************************************************)
EXTENDS Integers, Sequences, FiniteSets, TLC

\* ------------------------------------------------------------------ bounds
\* Cap on the length of hrManagers (addHRManager pushes without limit).
MaxHR == 2

\* ------------------------------------------------------------------ inputs
\* address(0): the value Solidity reads from an unset slot, and the value
\* ecrecover returns for a signature no key produced.
Zero == "0x0"
\* Addresses whose private key somebody holds (transaction senders, signers).
Keys == {"hr", "fm"}
\* Every address value a caller may pass as an argument.
Address == Keys \cup {Zero}
\* The address ecrecover yields for a well-formed signature made over another
\* message: an address nobody chose, taken never to be registered.
Unrelated == "0x?"

HRNames == {"Alice"}
FMNames == {"Charlie"}
JobTypeNames == {"IT", "Finance"}
Emails == {"c@x", "d@x"}
\* (title, description) pairs; the first two have the same concatenation.
Contents == {<<"ab", "c">>, <<"a", "bc">>, <<"a", "c">>}

\* ----------------------------------------------------------------- hashing
\* keccak256 is taken to be injective: a hash is written as its preimage
\* between the marks "keccak(" and ")".
keccak256(bytes) == "keccak(" \o bytes \o ")"

\* Faulty variant: an encoding that keeps the boundary between the two strings
\* (as abi.encode does with its length prefixes).
encodeWithBoundary(a, b) == a \o "|" \o b

\* abi.encodePacked of two strings: their bytes, one after the other.
encodePacked(a, b) == a \o b

getMessageHash(title, description) == keccak256(encodePacked(title, description))

getEthSignedMessageHash(messageHash) ==
    keccak256(encodePacked("\\x19Ethereum Signed Message:\\n32", messageHash))

JobHashes == {getMessageHash(c[1], c[2]) : c \in Contents}

\* -------------------------------------------------------------- signatures
\* A signature blob: its length in bytes, the key that produced it (Zero when
\* no key did: arbitrary bytes) and the 32-byte message it was produced over.
NoMsg == ""
GarbageSig == [len |-> 65, signer |-> Zero, msg |-> NoMsg]
ShortSig == [len |-> 64, signer |-> Zero, msg |-> NoMsg]
\* What signers sign: the wrapped hash of some content (signMessage).
SignedMsgs == {getEthSignedMessageHash(h) : h \in JobHashes}
Signatures == {GarbageSig, ShortSig}
                  \cup [len : {65}, signer : Keys, msg : SignedMsgs]

\* ecrecover precompile on a 65-byte signature.
ecrecover(hash, sig) ==
    IF sig.signer = Zero THEN Zero
    ELSE IF sig.msg = hash THEN sig.signer
    ELSE Unrelated

\* splitSignature: require(sig.length == 65).
splitSignatureOk(sig) == sig.len = 65

\* recoverSigner: the recovered address; defined when splitSignatureOk.
recoverSigner(ethSignedMessageHash, signature) ==
    ecrecover(ethSignedMessageHash, signature)

\* ------------------------------------------------------------------- state
VARIABLES
    hrManagers,     \* HRManager[]: sequence of [id, name]
    jobTypes,       \* string[]: the keys listFieldManagers iterates
    fieldManagers,  \* mapping(string => FieldManager)
    approvedJobs,   \* mapping(bytes32 => bool)
    emailExists,    \* mapping(string => bool)
    approvedCount   \* history: JobApproved events emitted so far, per hash

storage == <<hrManagers, jobTypes, fieldManagers, approvedJobs, emailExists>>
vars == <<hrManagers, jobTypes, fieldManagers, approvedJobs, emailExists,
          approvedCount>>

\* The value of an unset mapping slot / a deleted struct.
EmptyFieldManager == [id |-> Zero, name |-> "", jobType |-> "", email |-> ""]

\* ------------------------------------------------------------ revert reasons
Ok == "ok"
AccessDenied == "Only HR managers can perform this action"
DomainOccupied == "Field manager already exists for this job type"
ContactTaken == "Email already exists"
DomainNotFound == "Field manager does not exist"
DomainNotAssigned == "No field manager assigned"
AlreadyApproved == "Job already approved"
InvalidSignatureLength == "Invalid signature length"
InvalidAuthorizerSignature == "Invalid HR signature"
InvalidSpecialistSignature == "Invalid Field Manager signature"

\* What a call of recoverSigner ends in: splitSignature's require comes before
\* ecrecover.
recoverSignerRevert(signature) ==
    IF ~splitSignatureOk(signature) THEN InvalidSignatureLength ELSE Ok

\* ----------------------------------------------------------------- helpers
\* The linear scan of onlyHRManager / verifyJob: some record has this id.
IsHRManager(a) == \E i \in 1..Len(hrManagers) : hrManagers[i].id = a

\* Faulty variant: a modifier that lets anybody through while the list is empty.
onlyHRManagerOrEmpty(sender) == IsHRManager(sender) \/ Len(hrManagers) = 0

onlyHRManager(sender) == IsHRManager(sender)

\* The slot the loops of removeHRManager / updateHRManager stop at: the first
\* index whose record has this id, 0 when the loop ends without a match.
HRManagerIndex(_hrManager) ==
    IF \E i \in 1..Len(hrManagers) : hrManagers[i].id = _hrManager
    THEN CHOOSE i \in 1..Len(hrManagers) :
            /\ hrManagers[i].id = _hrManager
            /\ \A k \in 1..(i - 1) : hrManagers[k].id # _hrManager
    ELSE 0

\* The slot the loops over jobTypes stop at: the first index whose key hashes
\* like _jobType, 0 when there is none.
JobTypeIndex(_jobType) ==
    IF \E i \in 1..Len(jobTypes) : keccak256(jobTypes[i]) = keccak256(_jobType)
    THEN CHOOSE i \in 1..Len(jobTypes) :
            /\ keccak256(jobTypes[i]) = keccak256(_jobType)
            /\ \A k \in 1..(i - 1) : keccak256(jobTypes[k]) # keccak256(_jobType)
    ELSE 0

\* s[i] = s[s.length - 1]; s.pop()  (nothing when the loop found no slot)
SwapAndPop(s, i) ==
    IF i = 0 THEN s
    ELSE SubSeq([s EXCEPT ![i] = s[Len(s)]], 1, Len(s) - 1)

\* A reverted call: the storage is rolled back and no event is emitted.
Revert == UNCHANGED vars

\* ------------------------------------------------------------- construction
\* constructor(_hrManager, _hrManagerName), as deployed by scripts/deploy.js.
Init ==
    /\ hrManagers = <<[id |-> "hr", name |-> "Alice"]>>
    /\ jobTypes = <<>>
    /\ fieldManagers = [j \in JobTypeNames |-> EmptyFieldManager]
    /\ approvedJobs = [h \in JobHashes |-> FALSE]
    /\ emailExists = [e \in Emails |-> FALSE]
    /\ approvedCount = [h \in JobHashes |-> 0]

\* ------------------------------------------------------------- HR managers
addHRManagerRevert(sender) ==
    IF ~onlyHRManager(sender) THEN AccessDenied ELSE Ok

\* Faulty variant: addHRManager putting the new record in front of the list.
addHRManagerPrepend(sender, _hrManager, _name) ==
    IF ~onlyHRManager(sender)
    THEN Revert
    ELSE /\ Len(hrManagers) < MaxHR
         /\ hrManagers' = <<[id |-> _hrManager, name |-> _name]>> \o hrManagers
         /\ UNCHANGED <<jobTypes, fieldManagers, approvedJobs, emailExists, approvedCount>>

addHRManager(sender, _hrManager, _name) ==
    IF addHRManagerRevert(sender) # Ok
    THEN Revert
    ELSE /\ Len(hrManagers) < MaxHR
         /\ hrManagers' = Append(hrManagers, [id |-> _hrManager, name |-> _name])
         /\ UNCHANGED <<jobTypes, fieldManagers, approvedJobs, emailExists, approvedCount>>

removeHRManagerRevert(sender) ==
    IF ~onlyHRManager(sender) THEN AccessDenied ELSE Ok

\* Faulty variant: removeHRManager popping the last record when the loop finds
\* no record with the given id.
removeHRManagerPopLast(sender, _hrManager) ==
    IF removeHRManagerRevert(sender) # Ok
    THEN Revert
    ELSE LET i == HRManagerIndex(_hrManager) IN
         /\ hrManagers' = SwapAndPop(hrManagers, IF i = 0 THEN Len(hrManagers) ELSE i)
         /\ UNCHANGED <<jobTypes, fieldManagers, approvedJobs, emailExists, approvedCount>>

\* The events removeHRManager emits: HRManagerRemoved inside the loop's match,
\* none when the loop ends without one (or the call reverts).
removeHRManagerEvents(sender, _hrManager) ==
    IF removeHRManagerRevert(sender) # Ok \/ HRManagerIndex(_hrManager) = 0
    THEN <<>>
    ELSE <<[event |-> "HRManagerRemoved", hrManager |-> _hrManager]>>

removeHRManager(sender, _hrManager) ==
    IF removeHRManagerRevert(sender) # Ok
    THEN Revert
    ELSE LET i == HRManagerIndex(_hrManager) IN
         /\ hrManagers' = SwapAndPop(hrManagers, i)
         /\ UNCHANGED <<jobTypes, fieldManagers, approvedJobs, emailExists, approvedCount>>

updateHRManagerRevert(sender) ==
    IF ~onlyHRManager(sender) THEN AccessDenied ELSE Ok

updateHRManager(sender, _hrManager, _newName) ==
    IF updateHRManagerRevert(sender) # Ok
    THEN Revert
    ELSE LET i == HRManagerIndex(_hrManager) IN
         /\ hrManagers' = IF i = 0 THEN hrManagers
                          ELSE [hrManagers EXCEPT ![i].name = _newName]
         /\ UNCHANGED <<jobTypes, fieldManagers, approvedJobs, emailExists, approvedCount>>

listHRManagers == hrManagers

\* Faulty variant: addFieldManager without `require(!emailExists[_email])`.
addFieldManagerRevertNoEmailCheck(sender, _jobType, _email) ==
    IF ~onlyHRManager(sender) THEN AccessDenied
    ELSE IF fieldManagers[_jobType].id # Zero THEN DomainOccupied
    ELSE Ok

\* ----------------------------------------------------------- field managers
\* The two require statements of addFieldManager, after the modifier.
addFieldManagerRevert(sender, _jobType, _email) ==
    IF ~onlyHRManager(sender) THEN AccessDenied
    ELSE IF fieldManagers[_jobType].id # Zero THEN DomainOccupied
    ELSE IF emailExists[_email] THEN ContactTaken
    ELSE Ok

addFieldManager(sender, _fieldManager, _name, _jobType, _email) ==
    IF addFieldManagerRevert(sender, _jobType, _email) # Ok
    THEN Revert
    ELSE /\ fieldManagers' = [fieldManagers EXCEPT ![_jobType] =
                [id |-> _fieldManager, name |-> _name,
                 jobType |-> _jobType, email |-> _email]]
         /\ emailExists' = [emailExists EXCEPT ![_email] = TRUE]
         /\ jobTypes' = Append(jobTypes, _jobType)
         /\ UNCHANGED <<hrManagers, approvedJobs, approvedCount>>

\* Faulty variant: removeFieldManager declared without the onlyHRManager modifier.
removeFieldManagerRevertNoModifier(sender, _jobType) ==
    IF fieldManagers[_jobType].id = Zero THEN DomainNotFound ELSE Ok

removeFieldManagerRevert(sender, _jobType) ==
    IF ~onlyHRManager(sender) THEN AccessDenied
    ELSE IF fieldManagers[_jobType].id = Zero THEN DomainNotFound
    ELSE Ok

\* Faulty variant: removeFieldManager without `delete emailExists[email]`.
removeFieldManagerKeepEmail(sender, _jobType) ==
    IF removeFieldManagerRevert(sender, _jobType) # Ok
    THEN Revert
    ELSE LET fieldManagerAddress == fieldManagers[_jobType].id
             i == JobTypeIndex(_jobType) IN
         /\ fieldManagers' = [fieldManagers EXCEPT ![_jobType] = EmptyFieldManager]
         /\ jobTypes' = SwapAndPop(jobTypes, i)
         /\ UNCHANGED <<hrManagers, approvedJobs, approvedCount, emailExists>>

removeFieldManager(sender, _jobType) ==
    IF removeFieldManagerRevert(sender, _jobType) # Ok
    THEN Revert
    ELSE LET fieldManagerAddress == fieldManagers[_jobType].id
             email == fieldManagers[_jobType].email
             i == JobTypeIndex(_jobType) IN
         /\ fieldManagers' = [fieldManagers EXCEPT ![_jobType] = EmptyFieldManager]
         /\ emailExists' = [emailExists EXCEPT ![email] = FALSE]
         /\ jobTypes' = SwapAndPop(jobTypes, i)
         /\ UNCHANGED <<hrManagers, approvedJobs, approvedCount>>

updateFieldManagerRevert(sender, _jobType, _newEmail) ==
    IF ~onlyHRManager(sender) THEN AccessDenied
    ELSE IF fieldManagers[_jobType].id = Zero THEN DomainNotFound
    ELSE IF emailExists[_newEmail] THEN ContactTaken
    ELSE Ok

\* Faulty variant: updateFieldManager without `delete fieldManagers[_jobType]`.
updateFieldManagerKeepOld(sender, _jobType, _newName, _newJobType, _newEmail) ==
    IF updateFieldManagerRevert(sender, _jobType, _newEmail) # Ok
    THEN Revert
    ELSE LET fieldManagerAddress == fieldManagers[_jobType].id
             oldEmail == fieldManagers[_jobType].email
             i == JobTypeIndex(_jobType) IN
         /\ emailExists' = [[emailExists EXCEPT ![oldEmail] = FALSE]
                               EXCEPT ![_newEmail] = TRUE]
         /\ jobTypes' = Append(SwapAndPop(jobTypes, i), _newJobType)
         /\ fieldManagers' = [fieldManagers EXCEPT ![_newJobType] =
                                [id |-> fieldManagerAddress, name |-> _newName,
                                 jobType |-> _newJobType, email |-> _newEmail]]
         /\ UNCHANGED <<hrManagers, approvedJobs, approvedCount>>

updateFieldManager(sender, _jobType, _newName, _newJobType, _newEmail) ==
    IF updateFieldManagerRevert(sender, _jobType, _newEmail) # Ok
    THEN Revert
    ELSE LET fieldManagerAddress == fieldManagers[_jobType].id
             oldEmail == fieldManagers[_jobType].email
             i == JobTypeIndex(_jobType)
             moved == [fieldManagers EXCEPT ![_newJobType] =
                          [id |-> fieldManagerAddress, name |-> _newName,
                           jobType |-> _newJobType, email |-> _newEmail]] IN
         /\ emailExists' = [[emailExists EXCEPT ![oldEmail] = FALSE]
                               EXCEPT ![_newEmail] = TRUE]
         /\ jobTypes' = Append(SwapAndPop(jobTypes, i), _newJobType)
         /\ fieldManagers' =
                IF keccak256(_jobType) # keccak256(_newJobType)
                THEN [moved EXCEPT ![_jobType] = EmptyFieldManager]
                ELSE moved
         /\ UNCHANGED <<hrManagers, approvedJobs, approvedCount>>

listFieldManagers == [i \in 1..Len(jobTypes) |-> fieldManagers[jobTypes[i]]]

\* ---------------------------------------------------------------- approval
\* Faulty variant: verifyJob without `require(!approvedJobs[jobHash])`.
verifyJobRevertNoReplayCheck(title, description, jobType, hrSignature, fieldManagerSignature) ==
    LET ethSignedMessageHash == getEthSignedMessageHash(getMessageHash(title, description))
        hrSigner == recoverSigner(ethSignedMessageHash, hrSignature)
        fieldSigner == recoverSigner(ethSignedMessageHash, fieldManagerSignature)
    IN  IF fieldManagers[jobType].id = Zero THEN DomainNotAssigned
        ELSE IF ~splitSignatureOk(hrSignature) THEN InvalidSignatureLength
        ELSE IF ~splitSignatureOk(fieldManagerSignature) THEN InvalidSignatureLength
        ELSE IF ~IsHRManager(hrSigner) THEN InvalidAuthorizerSignature
        ELSE IF fieldSigner # fieldManagers[jobType].id THEN InvalidSpecialistSignature
        ELSE Ok

\* Faulty variant: verifyJob without `require(isHRManager)`.
verifyJobRevertNoHRCheck(title, description, jobType, hrSignature, fieldManagerSignature) ==
    LET jobHash == getMessageHash(title, description)
        ethSignedMessageHash == getEthSignedMessageHash(jobHash)
        fieldSigner == recoverSigner(ethSignedMessageHash, fieldManagerSignature)
    IN  IF fieldManagers[jobType].id = Zero THEN DomainNotAssigned
        ELSE IF approvedJobs[jobHash] THEN AlreadyApproved
        ELSE IF ~splitSignatureOk(hrSignature) THEN InvalidSignatureLength
        ELSE IF ~splitSignatureOk(fieldManagerSignature) THEN InvalidSignatureLength
        ELSE IF fieldSigner # fieldManagers[jobType].id THEN InvalidSpecialistSignature
        ELSE Ok

\* Faulty variant: verifyJob accepting the signature of any registered field manager,
\* not only the one of the submitted jobType.
verifyJobRevertAnySpecialist(title, description, jobType, hrSignature, fieldManagerSignature) ==
    LET jobHash == getMessageHash(title, description)
        ethSignedMessageHash == getEthSignedMessageHash(jobHash)
        hrSigner == recoverSigner(ethSignedMessageHash, hrSignature)
        fieldSigner == recoverSigner(ethSignedMessageHash, fieldManagerSignature)
    IN  IF fieldManagers[jobType].id = Zero THEN DomainNotAssigned
        ELSE IF approvedJobs[jobHash] THEN AlreadyApproved
        ELSE IF ~splitSignatureOk(hrSignature) THEN InvalidSignatureLength
        ELSE IF ~splitSignatureOk(fieldManagerSignature) THEN InvalidSignatureLength
        ELSE IF ~IsHRManager(hrSigner) THEN InvalidAuthorizerSignature
        ELSE IF \A k \in JobTypeNames : fieldSigner # fieldManagers[k].id
             THEN InvalidSpecialistSignature
        ELSE Ok

\* Faulty variant: verifyJob checking `approvedJobs[jobHash]` before the field manager
\* of the jobType.
verifyJobRevertReplayFirst(title, description, jobType, hrSignature, fieldManagerSignature) ==
    LET jobHash == getMessageHash(title, description)
        ethSignedMessageHash == getEthSignedMessageHash(jobHash)
        hrSigner == recoverSigner(ethSignedMessageHash, hrSignature)
        fieldSigner == recoverSigner(ethSignedMessageHash, fieldManagerSignature)
    IN  IF approvedJobs[jobHash] THEN AlreadyApproved
        ELSE IF fieldManagers[jobType].id = Zero THEN DomainNotAssigned
        ELSE IF ~splitSignatureOk(hrSignature) THEN InvalidSignatureLength
        ELSE IF ~splitSignatureOk(fieldManagerSignature) THEN InvalidSignatureLength
        ELSE IF ~IsHRManager(hrSigner) THEN InvalidAuthorizerSignature
        ELSE IF fieldSigner # fieldManagers[jobType].id THEN InvalidSpecialistSignature
        ELSE Ok

\* Faulty variant: verifyJob consulting the ledger only for the jobType that was
\* registered first, as if approvals were kept per jobType.
verifyJobRevertReplayFirstKeyOnly(title, description, jobType, hrSignature, fieldManagerSignature) ==
    LET jobHash == getMessageHash(title, description)
        ethSignedMessageHash == getEthSignedMessageHash(jobHash)
        hrSigner == recoverSigner(ethSignedMessageHash, hrSignature)
        fieldSigner == recoverSigner(ethSignedMessageHash, fieldManagerSignature)
    IN  IF fieldManagers[jobType].id = Zero THEN DomainNotAssigned
        ELSE IF approvedJobs[jobHash] /\ jobTypes # <<>> /\ jobTypes[1] = jobType
             THEN AlreadyApproved
        ELSE IF ~splitSignatureOk(hrSignature) THEN InvalidSignatureLength
        ELSE IF ~splitSignatureOk(fieldManagerSignature) THEN InvalidSignatureLength
        ELSE IF ~IsHRManager(hrSigner) THEN InvalidAuthorizerSignature
        ELSE IF fieldSigner # fieldManagers[jobType].id THEN InvalidSpecialistSignature
        ELSE Ok

\* Faulty variant: verifyJob recovering the field manager's signer, and so
\* checking that signature's length, only after the HR check.
verifyJobRevertLazyFieldLength(title, description, jobType, hrSignature, fieldManagerSignature) ==
    LET jobHash == getMessageHash(title, description)
        ethSignedMessageHash == getEthSignedMessageHash(jobHash)
        hrSigner == recoverSigner(ethSignedMessageHash, hrSignature)
        fieldSigner == recoverSigner(ethSignedMessageHash, fieldManagerSignature)
    IN  IF fieldManagers[jobType].id = Zero THEN DomainNotAssigned
        ELSE IF approvedJobs[jobHash] THEN AlreadyApproved
        ELSE IF ~splitSignatureOk(hrSignature) THEN InvalidSignatureLength
        ELSE IF ~IsHRManager(hrSigner) THEN InvalidAuthorizerSignature
        ELSE IF ~splitSignatureOk(fieldManagerSignature) THEN InvalidSignatureLength
        ELSE IF fieldSigner # fieldManagers[jobType].id THEN InvalidSpecialistSignature
        ELSE Ok

\* The require statements of verifyJob in the order the code evaluates them.
verifyJobRevert(title, description, jobType, hrSignature, fieldManagerSignature) ==
    LET jobHash == getMessageHash(title, description)
        ethSignedMessageHash == getEthSignedMessageHash(jobHash)
        hrSigner == recoverSigner(ethSignedMessageHash, hrSignature)
        fieldSigner == recoverSigner(ethSignedMessageHash, fieldManagerSignature)
    IN  IF fieldManagers[jobType].id = Zero THEN DomainNotAssigned
        ELSE IF approvedJobs[jobHash] THEN AlreadyApproved
        ELSE IF ~splitSignatureOk(hrSignature) THEN InvalidSignatureLength
        ELSE IF ~splitSignatureOk(fieldManagerSignature) THEN InvalidSignatureLength
        ELSE IF ~IsHRManager(hrSigner) THEN InvalidAuthorizerSignature
        ELSE IF fieldSigner # fieldManagers[jobType].id THEN InvalidSpecialistSignature
        ELSE Ok

\* Faulty variant: the ledger keeps only the last approved hash.
SetApprovedOverwrite(jobHash) == [h \in JobHashes |-> h = jobHash]

\* Faulty variant: the approving write is missing.
SetApprovedForgotten(jobHash) == approvedJobs

\* approvedJobs[jobHash] = true
SetApproved(jobHash) == [approvedJobs EXCEPT ![jobHash] = TRUE]

\* Faulty variant: verifyJob writing the ledger before the field manager check
\* and keeping the write when that check fails.
verifyJobNoRollback(title, description, jobType, hrSignature, fieldManagerSignature) ==
    LET reason == verifyJobRevert(title, description, jobType,
                                  hrSignature, fieldManagerSignature)
        jobHash == getMessageHash(title, description)
    IN  /\ UNCHANGED <<hrManagers, jobTypes, fieldManagers, emailExists>>
        /\ IF reason \notin {Ok, InvalidSpecialistSignature}
           THEN UNCHANGED <<approvedJobs, approvedCount>>
           ELSE /\ approvedJobs' = SetApproved(jobHash)
                /\ approvedCount' = [approvedCount EXCEPT ![jobHash] =
                                       IF reason = Ok THEN @ + 1 ELSE @]

verifyJob(title, description, jobType, hrSignature, fieldManagerSignature) ==
    LET reason == verifyJobRevert(title, description, jobType,
                                  hrSignature, fieldManagerSignature)
        jobHash == getMessageHash(title, description)
        ethSignedMessageHash == getEthSignedMessageHash(jobHash)
        hrSigner == recoverSigner(ethSignedMessageHash, hrSignature)
        fieldSigner == recoverSigner(ethSignedMessageHash, fieldManagerSignature)
    IN  /\ UNCHANGED <<hrManagers, jobTypes, fieldManagers, emailExists>>
        /\ IF reason # Ok
           THEN UNCHANGED <<approvedJobs, approvedCount>>
           ELSE /\ approvedJobs' = SetApproved(jobHash)
                /\ approvedCount' = [approvedCount EXCEPT ![jobHash] = @ + 1]

\* isApproved: the public getter approvedJobs(getMessageHash(title, description)).
isApproved(title, description) == approvedJobs[getMessageHash(title, description)]

\* ------------------------------------------------------------ specification
Next ==
    \/ \E s \in Keys, a \in Address, n \in HRNames : addHRManager(s, a, n)
    \/ \E s \in Keys, a \in Address : removeHRManager(s, a)
    \/ \E s \in Keys, a \in Address, n \in HRNames : updateHRManager(s, a, n)
    \/ \E s \in Keys, a \in Address, n \in FMNames, j \in JobTypeNames, e \in Emails :
          addFieldManager(s, a, n, j, e)
    \/ \E s \in Keys, j \in JobTypeNames : removeFieldManager(s, j)
    \/ \E s \in Keys, j \in JobTypeNames, n \in FMNames, k \in JobTypeNames, e \in Emails :
          updateFieldManager(s, j, n, k, e)
    \/ \E c \in Contents, j \in JobTypeNames, hs \in Signatures, fs \in Signatures :
          verifyJob(c[1], c[2], j, hs, fs)

Spec == Init /\ [][Next]_vars

\* ------------------------------------------------- registry specifications
\* Wider argument sets for the registry operations: a second display name per
\* role (the tests rename "Alice" to "Alice Smith" and "Charlie" to
\* "Charlie Brown") and a third e-mail, so that an update can carry a fresh
\* e-mail while two field managers are registered.
HRNamesWide == HRNames \cup {"Alice Smith"}
FMNamesWide == FMNames \cup {"Charlie Brown"}
EmailsWide == Emails \cup {"e@x"}

\* The contract after construction, with the e-mail index over EmailsWide.
InitSpecialists ==
    /\ hrManagers = <<[id |-> "hr", name |-> "Alice"]>>
    /\ jobTypes = <<>>
    /\ fieldManagers = [j \in JobTypeNames |-> EmptyFieldManager]
    /\ approvedJobs = [h \in JobHashes |-> FALSE]
    /\ emailExists = [e \in EmailsWide |-> FALSE]
    /\ approvedCount = [h \in JobHashes |-> 0]

\* Any sequence of addFieldManager, removeFieldManager and updateFieldManager
\* calls on the constructed contract.
NextSpecialists ==
    \/ \E s \in Keys, a \in Address, n \in FMNames, j \in JobTypeNames, e \in EmailsWide :
          addFieldManager(s, a, n, j, e)
    \/ \E s \in Keys, j \in JobTypeNames : removeFieldManager(s, j)
    \/ \E s \in Keys, j \in JobTypeNames, n \in FMNamesWide, k \in JobTypeNames,
          e \in EmailsWide :
          updateFieldManager(s, j, n, k, e)

SpecSpecialists == InitSpecialists /\ [][NextSpecialists]_vars

\* Any sequence of registry calls, the HR manager names drawn from HRNamesWide.
NextAuthorizers ==
    \/ \E s \in Keys, a \in Address, n \in HRNamesWide : addHRManager(s, a, n)
    \/ \E s \in Keys, a \in Address : removeHRManager(s, a)
    \/ \E s \in Keys, a \in Address, n \in HRNamesWide : updateHRManager(s, a, n)
    \/ \E s \in Keys, a \in Address, n \in FMNames, j \in JobTypeNames, e \in Emails :
          addFieldManager(s, a, n, j, e)
    \/ \E s \in Keys, j \in JobTypeNames : removeFieldManager(s, j)
    \/ \E s \in Keys, j \in JobTypeNames, n \in FMNames, k \in JobTypeNames, e \in Emails :
          updateFieldManager(s, j, n, k, e)

SpecAuthorizers == Init /\ [][NextAuthorizers]_vars

\* ------------------------------------------------------------------ events
\* The events a call adds to the log: the `emit` of the function when the
\* call runs to its end, none when it reverts (removeHRManagerEvents, above,
\* and updateHRManagerEvents emit inside the loop's match only).
addHRManagerEvents(sender, _hrManager, _name) ==
    IF addHRManagerRevert(sender) # Ok THEN <<>>
    ELSE <<[event |-> "HRManagerAdded", hrManager |-> _hrManager, name |-> _name]>>

updateHRManagerEvents(sender, _hrManager, _newName) ==
    IF updateHRManagerRevert(sender) # Ok \/ HRManagerIndex(_hrManager) = 0
    THEN <<>>
    ELSE <<[event |-> "HRManagerUpdated", hrManager |-> _hrManager, newName |-> _newName]>>

addFieldManagerEvents(sender, _fieldManager, _name, _jobType, _email) ==
    IF addFieldManagerRevert(sender, _jobType, _email) # Ok THEN <<>>
    ELSE <<[event |-> "FieldManagerAdded", fieldManager |-> _fieldManager,
            name |-> _name, jobType |-> _jobType, email |-> _email]>>

removeFieldManagerEvents(sender, _jobType) ==
    IF removeFieldManagerRevert(sender, _jobType) # Ok THEN <<>>
    ELSE <<[event |-> "FieldManagerRemoved",
            fieldManager |-> fieldManagers[_jobType].id]>>

updateFieldManagerEvents(sender, _jobType, _newName, _newJobType, _newEmail) ==
    IF updateFieldManagerRevert(sender, _jobType, _newEmail) # Ok THEN <<>>
    ELSE <<[event |-> "FieldManagerUpdated", fieldManager |-> fieldManagers[_jobType].id,
            newName |-> _newName, newJobType |-> _newJobType, newEmail |-> _newEmail]>>

verifyJobEvents(title, description, jobType, hrSignature, fieldManagerSignature) ==
    LET ethSignedMessageHash == getEthSignedMessageHash(getMessageHash(title, description))
    IN  IF verifyJobRevert(title, description, jobType, hrSignature,
                           fieldManagerSignature) # Ok
        THEN <<>>
        ELSE <<[event |-> "JobApproved", title |-> title, description |-> description,
                hr |-> recoverSigner(ethSignedMessageHash, hrSignature),
                fieldManager |-> recoverSigner(ethSignedMessageHash, fieldManagerSignature)]>>

\* ================================================================== claims
\* The verifyJob calls the model draws: <<title, description, jobType,
\* hrSignature, fieldManagerSignature>>.
VerifyCalls ==
    {<<c[1], c[2], j, hs, fs>> :
        c \in Contents, j \in JobTypeNames, hs \in Signatures, fs \in Signatures}

JobHashOf(c) == getMessageHash(c[1], c[2])
RevertOf(c) == verifyJobRevert(c[1], c[2], c[3], c[4], c[5])

\* sig is a 65-byte signature that key `signer` produced over the wrapped jobHash.
Genuine(sig, jobHash, signer) ==
    /\ sig.len = 65
    /\ signer \in Keys
    /\ sig.signer = signer
    /\ sig.msg = getEthSignedMessageHash(jobHash)

\* sig is a 65-byte signature produced by key `signer` (over any message).
ProducedBy(sig, signer) == sig.len = 65 /\ signer \in Keys /\ sig.signer = signer

\* The address verifyJob recovers from sig for the content of call c.
RecoveredIn(c, sig) == recoverSigner(getEthSignedMessageHash(JobHashOf(c)), sig)

\* A call whose two signatures are the ones honest parties produce: a current
\* HR manager and the jobType's field manager, both over the digest of the
\* call's content.
ValidlySigned(c) ==
    /\ \E a \in Keys : IsHRManager(a) /\ Genuine(c[4], JobHashOf(c), a)
    /\ Genuine(c[5], JobHashOf(c), fieldManagers[c[3]].id)

\* C1: a digest becomes approved only through a verifyJob call that was given
\* an authorizer signature genuinely produced over that digest by a current
\* authorizer and a specialist signature genuinely produced over it by the
\* specialist registered for the submitted jobType.
C1_ApprovedOnlyWithGenuineSignatures ==
    [][approvedJobs' # approvedJobs =>
        /\ \E c \in VerifyCalls : verifyJob(c[1], c[2], c[3], c[4], c[5])
        /\ \A c \in VerifyCalls :
              verifyJob(c[1], c[2], c[3], c[4], c[5]) =>
                 /\ \E a \in Keys : IsHRManager(a) /\ Genuine(c[4], JobHashOf(c), a)
                 /\ Genuine(c[5], JobHashOf(c), fieldManagers[c[3]].id)]_vars

\* C2: at most one verifyJob call per digest ever succeeds (at most one
\* JobApproved event per digest), and once a digest is approved every validly
\* signed call for it on a jobType with a registered specialist fails with
\* AlreadyApproved.
C2_AtMostOneApprovalPerDigest ==
    /\ \A h \in JobHashes : approvedCount[h] <= 1
    /\ \A c \in VerifyCalls :
          (approvedJobs[JobHashOf(c)] /\ fieldManagers[c[3]].id # Zero /\ ValidlySigned(c))
             => RevertOf(c) = AlreadyApproved

\* C2 witness: a digest has been approved once and a validly signed call for
\* it is answered with AlreadyApproved.
C2_Witness ==
    \E c \in VerifyCalls :
        /\ approvedCount[JobHashOf(c)] = 1
        /\ ValidlySigned(c)
        /\ RevertOf(c) = AlreadyApproved

\* C3: approval is monotonic: a digest that is approved stays approved across
\* every step, whichever operation the step is.
C3_ApprovedIsTerminal ==
    [][\A h \in JobHashes : approvedJobs[h] => approvedJobs'[h]]_vars

\* C3 witness: both digests are approved (the second approval wrote to a
\* ledger that held the first) and the specialists have since been removed.
C3_Witness ==
    /\ \A h \in JobHashes : approvedJobs[h]
    /\ \A j \in JobTypeNames : fieldManagers[j].id = Zero

\* C4: isApproved(title, description) is true exactly when some earlier
\* verifyJob call for content with the same digest completed successfully.
C4_IsApprovedIffSucceeded ==
    \A c \in Contents :
        isApproved(c[1], c[2]) <=> approvedCount[getMessageHash(c[1], c[2])] > 0

\* C4 witness: ("a","bc") reads as approved after one approval of its digest,
\* while ("a","c") reads as not approved.
C4_Witness ==
    /\ approvedCount[getMessageHash("ab", "c")] = 1
    /\ isApproved("a", "bc")
    /\ ~isApproved("a", "c")

\* C5: each mutating registry operation called by a sender that is not a
\* current HR manager reverts with AccessDenied, and no step that changes the
\* HR list, the field-manager records, the jobType key list, the e-mail index
\* or the approval ledger is such a call.
C5_NonAuthorizerDenied ==
    /\ [](\A s \in Keys : ~IsHRManager(s) =>
            /\ addHRManagerRevert(s) = AccessDenied
            /\ removeHRManagerRevert(s) = AccessDenied
            /\ updateHRManagerRevert(s) = AccessDenied
            /\ \A j \in JobTypeNames :
                  /\ removeFieldManagerRevert(s, j) = AccessDenied
                  /\ \A e \in Emails :
                        /\ addFieldManagerRevert(s, j, e) = AccessDenied
                        /\ updateFieldManagerRevert(s, j, e) = AccessDenied)
    /\ [][storage' # storage =>
            \A s \in Keys : ~IsHRManager(s) =>
               \A a \in Address, j \in JobTypeNames :
                  /\ \A n \in HRNames :
                        ~addHRManager(s, a, n) /\ ~updateHRManager(s, a, n)
                  /\ ~removeHRManager(s, a) /\ ~removeFieldManager(s, j)
                  /\ \A n \in FMNames, k \in JobTypeNames, e \in Emails :
                        ~addFieldManager(s, a, n, j, e) /\ ~updateFieldManager(s, j, n, k, e)]_vars

\* C5 witness: some key holder is not an HR manager while a specialist, an
\* indexed e-mail and an approved digest are there to be changed.
C5_Witness ==
    /\ \E s \in Keys : ~IsHRManager(s) /\ addHRManagerRevert(s) = AccessDenied
    /\ jobTypes # <<>>
    /\ \E e \in Emails : emailExists[e]
    /\ \E h \in JobHashes : approvedJobs[h]

\* C6 as stated: a verifyJob call whose authorizer signature was produced by
\* a key that is not a current HR manager fails with
\* InvalidAuthorizerSignature, whatever the content, jobType and specialist
\* signature.
C6_AlwaysInvalidAuthorizerSignature ==
    \A c \in VerifyCalls :
        (\E k \in Keys : ProducedBy(c[4], k) /\ ~IsHRManager(k))
           => RevertOf(c) = InvalidAuthorizerSignature

\* C6 amended: such a call never succeeds, and it fails with
\* InvalidAuthorizerSignature whenever the jobType has a registered
\* specialist, the digest is not yet approved and the specialist signature is
\* 65 bytes long (the three checks the code makes first).
C6_NonAuthorizerSignatureRejected ==
    \A c \in VerifyCalls :
        (\E k \in Keys : ProducedBy(c[4], k) /\ ~IsHRManager(k))
           => /\ RevertOf(c) # Ok
              /\ (/\ fieldManagers[c[3]].id # Zero
                  /\ ~approvedJobs[JobHashOf(c)]
                  /\ c[5].len = 65)
                    => RevertOf(c) = InvalidAuthorizerSignature

\* C6 witness: a call signed for its digest by a key that was removed from the
\* HR list, with the specialist's genuine signature, is answered with
\* InvalidAuthorizerSignature.
C6_Witness ==
    \E c \in VerifyCalls :
        /\ Genuine(c[4], JobHashOf(c), "hr")
        /\ ~IsHRManager("hr")
        /\ Genuine(c[5], JobHashOf(c), fieldManagers[c[3]].id)
        /\ RevertOf(c) = InvalidAuthorizerSignature

\* C7: with a registered specialist, an unapproved digest and an authorizer
\* signature that recovers to a current HR manager, a call whose specialist
\* signature recovers to any other address than the jobType's specialist
\* (another jobType's specialist included) fails with
\* InvalidSpecialistSignature, and no step that changes the ledger is such a
\* call.
WrongSpecialist(c) ==
    /\ fieldManagers[c[3]].id # Zero
    /\ ~approvedJobs[JobHashOf(c)]
    /\ c[4].len = 65
    /\ IsHRManager(RecoveredIn(c, c[4]))
    /\ c[5].len = 65
    /\ RecoveredIn(c, c[5]) # fieldManagers[c[3]].id

C7_WrongSpecialistRejected ==
    /\ [](\A c \in VerifyCalls :
            WrongSpecialist(c) => RevertOf(c) = InvalidSpecialistSignature)
    /\ [][approvedJobs' # approvedJobs =>
            \A c \in VerifyCalls :
               verifyJob(c[1], c[2], c[3], c[4], c[5]) => ~WrongSpecialist(c)]_vars

\* C7 witness: a call for "IT" carrying the genuine signature of the "Finance"
\* specialist is answered with InvalidSpecialistSignature.
C7_Witness ==
    \E c \in VerifyCalls :
        /\ c[3] = "IT"
        /\ WrongSpecialist(c)
        /\ fieldManagers["Finance"].id # Zero
        /\ Genuine(c[5], JobHashOf(c), fieldManagers["Finance"].id)
        /\ RevertOf(c) = InvalidSpecialistSignature

\* C8: a verifyJob call for a jobType without a registered specialist fails
\* with DomainNotAssigned, whatever the two signatures are and whether or not
\* the digest is approved.
C8_DomainNotAssignedFirst ==
    \A c \in VerifyCalls :
        fieldManagers[c[3]].id = Zero => RevertOf(c) = DomainNotAssigned

\* C8 witness: a call with a short signature, for an approved digest and a
\* jobType without specialist, is answered with DomainNotAssigned.
C8_Witness ==
    \E c \in VerifyCalls :
        /\ fieldManagers[c[3]].id = Zero
        /\ approvedJobs[JobHashOf(c)]
        /\ c[4] = ShortSig
        /\ RevertOf(c) = DomainNotAssigned

\* C9: addFieldManager by an HR manager fails with DomainOccupied on a jobType
\* that has a specialist, and otherwise with ContactTaken when the e-mail is
\* indexed; a successful addFieldManager leaves both the jobType slot and the
\* e-mail registered, so that the next addFieldManager for that jobType fails
\* with DomainOccupied; no failing call changes the records or the index.
C9_AddSpecialistBothOrNeither ==
    /\ [](\A s \in Keys, j \in JobTypeNames, e \in Emails :
            IsHRManager(s) =>
               /\ fieldManagers[j].id # Zero
                     => addFieldManagerRevert(s, j, e) = DomainOccupied
               /\ (fieldManagers[j].id = Zero /\ emailExists[e])
                     => addFieldManagerRevert(s, j, e) = ContactTaken)
    /\ [][\A s \in Keys, a \in Address, n \in FMNames, j \in JobTypeNames, e \in Emails :
             addFieldManager(s, a, n, j, e) =>
                IF addFieldManagerRevert(s, j, e) = Ok
                THEN /\ fieldManagers'[j].id # Zero
                     /\ emailExists'[e]
                     /\ \A e2 \in Emails :
                           (addFieldManagerRevert(s, j, e2))' = DomainOccupied
                ELSE UNCHANGED <<fieldManagers, emailExists, jobTypes>>]_vars

\* C10: removeFieldManager by an HR manager fails with DomainNotFound when the
\* jobType has no specialist; otherwise it succeeds, the slot and the
\* specialist's e-mail are free afterwards, and every addFieldManager that an
\* HR manager could not make before only because of that specialist (its
\* jobType slot, its e-mail, or both) succeeds after the removal.
C10_RemoveFreesSlotAndContact ==
    /\ [](\A s \in Keys, j \in JobTypeNames :
            IsHRManager(s) =>
               removeFieldManagerRevert(s, j) =
                  IF fieldManagers[j].id = Zero THEN DomainNotFound ELSE Ok)
    /\ [][\A s \in Keys, j \in JobTypeNames :
             (IsHRManager(s) /\ fieldManagers[j].id # Zero /\ removeFieldManager(s, j))
                => /\ fieldManagers'[j].id = Zero
                   /\ ~emailExists'[fieldManagers[j].email]
                   /\ \A k \in JobTypeNames, e \in Emails :
                         (/\ addFieldManagerRevert(s, k, e) \in {DomainOccupied, ContactTaken}
                          /\ (k = j \/ fieldManagers[k].id = Zero)
                          /\ (e = fieldManagers[j].email \/ ~emailExists[e]))
                            => (addFieldManagerRevert(s, k, e))' = Ok]_vars

\* C10 witness: a digest is approved, which took a registered specialist, and
\* now no specialist is registered, no key is listed and no e-mail is indexed:
\* the specialist was removed, slot and e-mail together.
C10_Witness ==
    /\ \E h \in JobHashes : approvedCount[h] = 1
    /\ \A j \in JobTypeNames : fieldManagers[j].id = Zero
    /\ jobTypes = <<>>
    /\ \A e \in Emails : ~emailExists[e]
    /\ \E s \in Keys : IsHRManager(s)

\* C11: updateFieldManager on a jobType with a registered specialist, called
\* by an HR manager, fails with ContactTaken only when the new e-mail differs
\* from the specialist's current e-mail and is in the e-mail index; an update
\* that keeps the current e-mail does not fail.
C11_ContactTakenOnlyForOtherContact ==
    \A s \in Keys, j \in JobTypeNames, e \in Emails :
        (IsHRManager(s) /\ fieldManagers[j].id # Zero)
           => /\ updateFieldManagerRevert(s, j, e) = ContactTaken
                    <=> (e # fieldManagers[j].email /\ emailExists[e])
              /\ e = fieldManagers[j].email
                    => updateFieldManagerRevert(s, j, e) = Ok

\* C12: after a successful updateFieldManager that moves the specialist of
\* jobType d to a different jobType d', the record under d is empty
\* (removeFieldManager(d) and updateFieldManager(d, ...) fail with
\* DomainNotFound, verifyJob under d fails with DomainNotAssigned) and the
\* record under d' holds the identity that was under d, with the new name
\* and the new e-mail.
C12_RenameMovesSpecialist ==
    [][fieldManagers' # fieldManagers =>
        \A s \in Keys, j \in JobTypeNames, k \in JobTypeNames,
           n \in FMNamesWide, e \in EmailsWide :
           (/\ j # k
            /\ updateFieldManagerRevert(s, j, e) = Ok
            /\ updateFieldManager(s, j, n, k, e))
              => /\ fieldManagers'[j] = EmptyFieldManager
                 /\ (removeFieldManagerRevert(s, j))' = DomainNotFound
                 /\ \A e2 \in EmailsWide :
                       (updateFieldManagerRevert(s, j, e2))' = DomainNotFound
                 /\ \A c \in VerifyCalls :
                       c[3] = j => (RevertOf(c))' = DomainNotAssigned
                 /\ fieldManagers'[k] =
                       [id |-> fieldManagers[j].id, name |-> n,
                        jobType |-> k, email |-> e]]_vars

\* C12 witness: the key "fm" is registered under "Finance" with the name only
\* an update gives and the third e-mail, nothing is registered under "IT",
\* and calls under "IT" are answered with DomainNotFound.
C12_Witness ==
    /\ fieldManagers["Finance"] =
          [id |-> "fm", name |-> "Charlie Brown", jobType |-> "Finance", email |-> "e@x"]
    /\ fieldManagers["IT"] = EmptyFieldManager
    /\ jobTypes = <<"Finance">>
    /\ removeFieldManagerRevert("hr", "IT") = DomainNotFound
    /\ updateFieldManagerRevert("hr", "IT", "c@x") = DomainNotFound

\* C13: an e-mail is marked in emailExists exactly when the record of some
\* registered specialist holds it.
C13_ContactIndexMatchesRecords ==
    \A e \in EmailsWide :
        emailExists[e] <=>
           \E j \in JobTypeNames :
              fieldManagers[j].id # Zero /\ fieldManagers[j].email = e

\* C14: no two specialists registered under different jobTypes have the same
\* e-mail.
C14_ContactUniqueAcrossRecords ==
    \A j \in JobTypeNames, k \in JobTypeNames :
        (j # k /\ fieldManagers[j].id # Zero /\ fieldManagers[k].id # Zero)
           => fieldManagers[j].email # fieldManagers[k].email

\* C14 witness: a specialist is registered under each jobType and every
\* e-mail is in the index, one of them left there by an earlier record.
C14_Witness ==
    /\ \A j \in JobTypeNames : fieldManagers[j].id # Zero
    /\ fieldManagers["IT"].email # fieldManagers["Finance"].email
    /\ \A e \in EmailsWide : emailExists[e]

\* C15: the HR manager list never becomes empty: in every reachable state it
\* holds at least one record.
C15_AuthorizersNeverEmpty == Len(hrManagers) >= 1

\* The number of slots of an HR manager list that hold record r.
CountHR(list, r) == Cardinality({i \in 1..Len(list) : list[i] = r})

\* C16: after removeHRManager(a) called by an HR manager, no record of the
\* list has the identity a (a no longer passes onlyHRManager and a signature
\* of a is no longer accepted as HR signature), and every record with another
\* identity is present as often as before, with its name.
C16_RemovedAuthorizerIsGone ==
    [][hrManagers' # hrManagers =>
        \A s \in Keys, a \in Address :
           (IsHRManager(s) /\ removeHRManager(s, a))
              => /\ \A i \in 1..Len(hrManagers') : hrManagers'[i].id # a
                 /\ (addHRManagerRevert(a))' = AccessDenied
                 /\ \A c \in VerifyCalls :
                       ProducedBy(c[4], a) => (RevertOf(c))' # Ok
                 /\ \A i \in 1..Len(hrManagers) :
                       hrManagers[i].id # a
                          => CountHR(hrManagers', hrManagers[i])
                                = CountHR(hrManagers, hrManagers[i])]_vars

\* C17: removeHRManager(a) called by an HR manager for an identity a that no
\* record of the list has does not revert, emits no HRManagerRemoved event
\* and changes nothing: no step that changes the state is such a call.
C17_RemoveAbsentIsNoOp ==
    /\ [](\A s \in Keys, a \in Address :
            (IsHRManager(s) /\ ~IsHRManager(a))
               => /\ removeHRManagerRevert(s) = Ok
                  /\ removeHRManagerEvents(s, a) = <<>>)
    /\ [][\A s \in Keys, a \in Address :
            (IsHRManager(s) /\ ~IsHRManager(a)) => ~removeHRManager(s, a)]_vars

\* C17 witness: two HR managers are listed, the key "fm" is not among them
\* (removing it emits nothing) and a specialist is registered.
C17_Witness ==
    /\ Len(hrManagers) = 2
    /\ IsHRManager("hr")
    /\ ~IsHRManager("fm")
    /\ removeHRManagerRevert("hr") = Ok
    /\ removeHRManagerEvents("hr", "fm") = <<>>
    /\ jobTypes # <<>>

\* C18: updateHRManager(a, newName) called by an HR manager changes names
\* only: afterwards every record with identity a has the name newName, the
\* list has the same identities in the same order, and the records of other
\* identities keep their names.
C18_UpdateRenamesIdentity ==
    [][hrManagers' # hrManagers =>
        \A s \in Keys, a \in Address, n \in HRNamesWide :
           (IsHRManager(s) /\ updateHRManager(s, a, n))
              => /\ Len(hrManagers') = Len(hrManagers)
                 /\ \A i \in 1..Len(hrManagers) :
                       /\ hrManagers'[i].id = hrManagers[i].id
                       /\ hrManagers'[i].name =
                             IF hrManagers[i].id = a THEN n ELSE hrManagers[i].name]_vars

\* C19: right after construction the list holds exactly the seed record, no
\* specialist is registered and no content is approved; every successful
\* addHRManager appends exactly one record, the one it was given, at the end
\* of the list and leaves the records before it as they were.
C19_SeedThenAppend ==
    /\ listHRManagers = <<[id |-> "hr", name |-> "Alice"]>>
    /\ listFieldManagers = <<>>
    /\ \A j \in JobTypeNames : fieldManagers[j].id = Zero
    /\ \A c \in Contents : ~isApproved(c[1], c[2])
    /\ [][hrManagers' # hrManagers =>
            \A s \in Keys, a \in Address, n \in HRNamesWide :
               (addHRManagerRevert(s) = Ok /\ addHRManager(s, a, n))
                  => /\ Len(hrManagers') = Len(hrManagers) + 1
                     /\ hrManagers'[Len(hrManagers')] = [id |-> a, name |-> n]
                     /\ SubSeq(hrManagers', 1, Len(hrManagers)) = hrManagers]_vars

\* C19 witness: the list is the seed record followed by one appended record.
C19_Witness ==
    listHRManagers = <<[id |-> "hr", name |-> "Alice"],
                       [id |-> "fm", name |-> "Alice Smith"]>>

\* C20: listFieldManagers returns exactly one record for each registered
\* specialist and nothing else: jobTypes has no duplicate entries, every key
\* in it has a registered specialist, and every jobType with a registered
\* specialist is in it.
C20_KeyListMatchesSpecialists ==
    /\ \A i \in 1..Len(jobTypes), k \in 1..Len(jobTypes) :
          jobTypes[i] = jobTypes[k] => i = k
    /\ \A i \in 1..Len(listFieldManagers) : listFieldManagers[i].id # Zero
    /\ \A j \in JobTypeNames :
          fieldManagers[j].id # Zero
             => Cardinality({i \in 1..Len(listFieldManagers) :
                                listFieldManagers[i] = fieldManagers[j]}) = 1

\* C21: a call that ends in one of the error kinds leaves the whole state as
\* it was: it emits no event, and no step that changes the HR list, the
\* specialist records, the key list, the e-mail index, the ledger or the
\* count of JobApproved events is a call that reverts.
C21_FailedCallChangesNothing ==
    /\ [](\A s \in Keys, a \in Address, j \in JobTypeNames :
            /\ \A n \in HRNames :
                  /\ addHRManagerRevert(s) # Ok => addHRManagerEvents(s, a, n) = <<>>
                  /\ updateHRManagerRevert(s) # Ok => updateHRManagerEvents(s, a, n) = <<>>
            /\ removeHRManagerRevert(s) # Ok => removeHRManagerEvents(s, a) = <<>>
            /\ removeFieldManagerRevert(s, j) # Ok => removeFieldManagerEvents(s, j) = <<>>
            /\ \A n \in FMNames, k \in JobTypeNames, e \in Emails :
                  /\ addFieldManagerRevert(s, j, e) # Ok
                        => addFieldManagerEvents(s, a, n, j, e) = <<>>
                  /\ updateFieldManagerRevert(s, j, e) # Ok
                        => updateFieldManagerEvents(s, j, n, k, e) = <<>>)
    /\ [](\A c \in VerifyCalls :
            RevertOf(c) # Ok => verifyJobEvents(c[1], c[2], c[3], c[4], c[5]) = <<>>)
    /\ [][vars' # vars =>
            /\ \A s \in Keys :
                  /\ addHRManagerRevert(s) # Ok
                        => \A a \in Address, n \in HRNames : ~addHRManager(s, a, n)
                  /\ removeHRManagerRevert(s) # Ok
                        => \A a \in Address : ~removeHRManager(s, a)
                  /\ updateHRManagerRevert(s) # Ok
                        => \A a \in Address, n \in HRNames : ~updateHRManager(s, a, n)
                  /\ \A j \in JobTypeNames :
                        /\ removeFieldManagerRevert(s, j) # Ok => ~removeFieldManager(s, j)
                        /\ \A e \in Emails :
                              /\ addFieldManagerRevert(s, j, e) # Ok
                                    => \A a \in Address, n \in FMNames :
                                          ~addFieldManager(s, a, n, j, e)
                              /\ updateFieldManagerRevert(s, j, e) # Ok
                                    => \A n \in FMNames, k \in JobTypeNames :
                                          ~updateFieldManager(s, j, n, k, e)
            /\ \A c \in VerifyCalls :
                  verifyJob(c[1], c[2], c[3], c[4], c[5]) => RevertOf(c) = Ok]_vars

\* C21 witness: a state with a specialist, an indexed e-mail and an approved
\* content in which calls end in each of the nine error kinds.
C21_Witness ==
    /\ \E h \in JobHashes : approvedCount[h] = 1
    /\ \E s \in Keys : addHRManagerRevert(s) = AccessDenied
    /\ \E s \in Keys, j \in JobTypeNames, e \in Emails :
          addFieldManagerRevert(s, j, e) = DomainOccupied
    /\ \E s \in Keys, j \in JobTypeNames, e \in Emails :
          addFieldManagerRevert(s, j, e) = ContactTaken
    /\ \E s \in Keys, j \in JobTypeNames :
          removeFieldManagerRevert(s, j) = DomainNotFound
    /\ \A r \in {DomainNotAssigned, AlreadyApproved, InvalidSignatureLength,
                 InvalidAuthorizerSignature, InvalidSpecialistSignature} :
          \E c \in VerifyCalls : RevertOf(c) = r

\* C22: once the HR manager list is empty it stays empty: in such a state
\* every mutating registry call, whoever sends it, fails with AccessDenied,
\* and no step changes the list, the specialist records, the key list or the
\* e-mail index.
C22_EmptyListIsFinal ==
    /\ [](hrManagers = <<>> =>
            \A s \in Keys :
               /\ addHRManagerRevert(s) = AccessDenied
               /\ removeHRManagerRevert(s) = AccessDenied
               /\ updateHRManagerRevert(s) = AccessDenied
               /\ \A j \in JobTypeNames :
                     /\ removeFieldManagerRevert(s, j) = AccessDenied
                     /\ \A e \in Emails :
                           /\ addFieldManagerRevert(s, j, e) = AccessDenied
                           /\ updateFieldManagerRevert(s, j, e) = AccessDenied)
    /\ [][hrManagers = <<>> =>
            /\ hrManagers' = <<>>
            /\ UNCHANGED <<jobTypes, fieldManagers, emailExists>>]_vars

\* C22 witness: the list is empty while a specialist is still registered.
C22_Witness ==
    /\ hrManagers = <<>>
    /\ \E j \in JobTypeNames : fieldManagers[j].id # Zero
    /\ jobTypes # <<>>

\* C23: the ledger is keyed by content only: once a content has been approved
\* by a call under one jobType, a call with the same title and description
\* under any other jobType with a registered specialist fails with
\* AlreadyApproved, also when it carries valid signatures for that jobType.
C23_ApprovalKeyedByContentOnly ==
    [][approvedJobs' # approvedJobs =>
        \A c \in VerifyCalls :
           (RevertOf(c) = Ok /\ verifyJob(c[1], c[2], c[3], c[4], c[5]))
              => \A d \in VerifyCalls :
                    (/\ d[1] = c[1] /\ d[2] = c[2]
                     /\ d[3] # c[3]
                     /\ fieldManagers[d[3]].id # Zero)
                       => (RevertOf(d))' = AlreadyApproved]_vars

\* C23 witness: a content is approved, both jobTypes have a specialist with a
\* key of its own, and a call for that content under "Finance" with valid
\* signatures is answered with AlreadyApproved (as is one under "IT").
C23_Witness ==
    /\ fieldManagers["IT"].id # Zero
    /\ fieldManagers["Finance"].id # Zero
    /\ fieldManagers["IT"].id # fieldManagers["Finance"].id
    /\ \E c \in VerifyCalls, d \in VerifyCalls :
          /\ c[1] = d[1] /\ c[2] = d[2]
          /\ c[3] = "IT" /\ d[3] = "Finance"
          /\ approvedCount[JobHashOf(c)] = 1
          /\ ValidlySigned(c) /\ ValidlySigned(d)
          /\ RevertOf(c) = AlreadyApproved
          /\ RevertOf(d) = AlreadyApproved

\* C24: getMessageHash(t1, d1) equals getMessageHash(t2, d2) exactly when the
\* concatenations t1+d1 and t2+d2 are equal; so contents with the same
\* concatenation are approved together (after ("ab", "c") is approved,
\* isApproved("a", "bc") is true and verifyJob("a", "bc", ...) fails with
\* AlreadyApproved) and an approval changes nothing for contents with another
\* concatenation.
C24_DigestIsConcatenation ==
    /\ [](\A c1 \in Contents, c2 \in Contents :
            /\ (getMessageHash(c1[1], c1[2]) = getMessageHash(c2[1], c2[2]))
                  <=> (c1[1] \o c1[2] = c2[1] \o c2[2])
            /\ (c1[1] \o c1[2] = c2[1] \o c2[2] /\ isApproved(c1[1], c1[2]))
                  => /\ isApproved(c2[1], c2[2])
                     /\ \A j \in JobTypeNames, hs \in Signatures, fs \in Signatures :
                           fieldManagers[j].id # Zero
                              => verifyJobRevert(c2[1], c2[2], j, hs, fs) = AlreadyApproved)
    /\ [][approvedJobs' # approvedJobs =>
            \A c \in VerifyCalls :
               (RevertOf(c) = Ok /\ verifyJob(c[1], c[2], c[3], c[4], c[5]))
                  => \A c2 \in Contents :
                        (isApproved(c2[1], c2[2]))' =
                           IF c2[1] \o c2[2] = c[1] \o c[2]
                           THEN TRUE
                           ELSE isApproved(c2[1], c2[2])]_vars

\* C24 witness: one approval of the digest of "abc" has happened; with the
\* genuine signatures over it, verifyJob("a", "bc", "IT", ...) is answered
\* with AlreadyApproved, while ("a", "c") is unapproved and its validly signed
\* call would succeed.
C24_Witness ==
    /\ approvedCount[getMessageHash("ab", "c")] = 1
    /\ isApproved("a", "bc")
    /\ ~isApproved("a", "c")
    /\ \E c \in VerifyCalls :
          /\ c[1] = "a" /\ c[2] = "bc" /\ c[3] = "IT"
          /\ ValidlySigned(c)
          /\ RevertOf(c) = AlreadyApproved
    /\ \E c \in VerifyCalls :
          /\ c[1] = "a" /\ c[2] = "c" /\ c[3] = "IT"
          /\ RevertOf(c) = Ok

\* C25: on a jobType with a registered specialist, a signature of a length
\* other than 65 takes precedence over the duplicate check: when the content
\* is already approved and either signature is not 65 bytes long, verifyJob
\* fails with InvalidSignatureLength.
C25_LengthBeforeDuplicate ==
    \A c \in VerifyCalls :
        (/\ fieldManagers[c[3]].id # Zero
         /\ approvedJobs[JobHashOf(c)]
         /\ (c[4].len # 65 \/ c[5].len # 65))
           => RevertOf(c) = InvalidSignatureLength

\* Signatures of other lengths than 65: empty, one byte short (the genuine
\* signatures truncated, and arbitrary bytes) and one byte long.
OtherLengths == {0, 64, 66}
WrongLengthSigs ==
    [len : OtherLengths, signer : {Zero}, msg : {NoMsg}]
       \cup [len : OtherLengths, signer : Keys, msg : SignedMsgs]

\* C26: recoverSigner fails with InvalidSignatureLength for every signature
\* whose length is not 65; on a jobType with a registered specialist and an
\* unapproved content, a verifyJob call in which the HR signature or the
\* field manager signature has another length than 65 fails with
\* InvalidSignatureLength, whatever the other signature is, and no step that
\* approves is such a call.
C26_WrongLengthFailsFast ==
    /\ [](\A sig \in Signatures \cup WrongLengthSigs :
            recoverSignerRevert(sig) =
               IF sig.len # 65 THEN InvalidSignatureLength ELSE Ok)
    /\ [](\A c \in Contents, j \in JobTypeNames :
            (fieldManagers[j].id # Zero /\ ~isApproved(c[1], c[2]))
               => \A bad \in WrongLengthSigs, any \in Signatures \cup WrongLengthSigs :
                     /\ verifyJobRevert(c[1], c[2], j, bad, any) = InvalidSignatureLength
                     /\ verifyJobRevert(c[1], c[2], j, any, bad) = InvalidSignatureLength)
    /\ [][approvedJobs' # approvedJobs =>
            \A c \in VerifyCalls :
               verifyJob(c[1], c[2], c[3], c[4], c[5])
                  => c[4].len = 65 /\ c[5].len = 65]_vars

\* C26 witness: a specialist is registered, a content is unapproved, and the
\* call with a 65-byte signature of a key that is no HR manager and a
\* truncated signature of the specialist is answered with
\* InvalidSignatureLength.
C26_Witness ==
    \E c \in Contents, j \in JobTypeNames, hs \in Signatures, fs \in WrongLengthSigs :
        /\ fieldManagers[j].id # Zero
        /\ ~isApproved(c[1], c[2])
        /\ hs.len = 65 /\ hs.signer \in Keys /\ ~IsHRManager(hs.signer)
        /\ fs.len = 64 /\ fs.signer = fieldManagers[j].id
        /\ verifyJobRevert(c[1], c[2], j, hs, fs) = InvalidSignatureLength

\* C27: a 65-byte signature that no key produced (ecrecover yields
\* address(0)) is never accepted by verifyJob, neither as HR signature nor as
\* field manager signature, whatever has been added to the registry.
C27_GarbageSignatureRejected ==
    \A c \in VerifyCalls :
        (c[4] = GarbageSig \/ c[5] = GarbageSig) => RevertOf(c) # Ok

\* The number of jobTypes with a registered specialist in records fm.
CountRegistered(fm) == Cardinality({j \in JobTypeNames : fm[j].id # Zero})

\* C28: a successful updateFieldManager(j, newName, k, newEmail) touches only
\* the specialist of j: the specialist of every other jobType, the one under
\* k included, is registered afterwards with the same identity, name and
\* e-mail, and the number of registered specialists is the same.
C28_UpdateLeavesOthers ==
    [][fieldManagers' # fieldManagers =>
        \A s \in Keys, j \in JobTypeNames, n \in FMNamesWide,
           k \in JobTypeNames, e \in EmailsWide :
           (updateFieldManagerRevert(s, j, e) = Ok /\ updateFieldManager(s, j, n, k, e))
              => /\ \A o \in JobTypeNames \ {j} :
                       fieldManagers[o].id # Zero
                          => fieldManagers'[o] = fieldManagers[o]
                 /\ CountRegistered(fieldManagers') = CountRegistered(fieldManagers)]_vars

====
